---- MODULE Spec2Model ----
(***************************************************************************)
(* State-machine model of src/script.js: the browser dashboard client.     *)
(* JavaScript objects are records whose optional keys may be absent from   *)
(* the record's domain (a missing key and a null value are both falsy for  *)
(* every test the script makes, so null is modelled as absence).  Strings  *)
(* the script transforms (names, work orders, prompt input) are tuples of  *)
(* one-character strings.  Every event handler of the script is one        *)
(* action; time is abstracted to the order in which callbacks fire.        *)
(***************************************************************************)
EXTENDS Integers, Sequences, FiniteSets, TLC

VARIABLES
    currentUser,          \* script.js:27   the logged-in user, or NoUser
    socket,               \* script.js:28   handle of the WebSocket held in `socket`, 0 = null
    conns,                \* the WebSocket objects not yet closed: handle -> readyState
    reconnectTimers,      \* script.js:125  pending setTimeout(initWebSocket, 3000)
    timers,               \* script.js:29, 324: the live intervals and etaIntervals
    suppressNextWSRender, \* script.js:31
    dashboardCache,       \* script.js:32
    renamedMachines,      \* script.js:33   machine id -> name
    dom,                  \* the machine cards in #locations: machine id -> card
    alerts,               \* children of #alerts, newest first
    dialog,               \* text of the alert() box the latest handler showed, "" if none
    filters,              \* values of #filter-location, #filter-status, #search-machine
    pendingPolls,         \* GET /dashboard requests in flight
    retryTimers,          \* script.js:147  pending setTimeout(loadDashboard, 3000)
    pendingLogs,          \* GET /production_logs requests in flight
    pendingActions,       \* POST /machine/{action} requests in flight
    pendingRenames,       \* POST /machine/rename requests in flight
    actionDispatched      \* history: a start/pause/stop was dispatched since the
                          \* last push message was handled

vars == <<currentUser, socket, conns, reconnectTimers, timers,
          suppressNextWSRender, dashboardCache, renamedMachines, dom, alerts,
          dialog, filters, pendingPolls, retryTimers, pendingLogs,
          pendingActions, pendingRenames, actionDispatched>>

(***************************************************************************)
(* Bounds of the model.                                                    *)
(***************************************************************************)
MaxSec == 2        \* remaining_time and eta values are drawn from 0..MaxSec
MaxAlerts == 2     \* alerts shown at once
MaxPending == 1    \* requests of one kind in flight, timeouts of one kind pending
MaxConns == 2      \* WebSocket objects alive at once

(***************************************************************************)
(* JavaScript objects.                                                     *)
(***************************************************************************)
EmptyObj == [k \in {} |-> TRUE]
Has(o, k) == k \in DOMAIN o
Put(o, k, v) == [f \in DOMAIN o \cup {k} |-> IF f = k THEN v ELSE o[f]]
Del(o, k) == [f \in DOMAIN o \ {k} |-> o[f]]

SetMin(S) == CHOOSE x \in S : \A y \in S : x <= y
\* the smallest handle >= 1 that is not in use
Fresh(used) == SetMin((1..(Cardinality(used) + 1)) \ used)

(***************************************************************************)
(* Strings as tuples of characters.                                        *)
(***************************************************************************)
RECURSIVE TrimStart(_)
TrimStart(s) == IF s # <<>> /\ Head(s) = " " THEN TrimStart(Tail(s)) ELSE s

RECURSIVE TrimEnd(_)
TrimEnd(s) ==
    IF s # <<>> /\ s[Len(s)] = " " THEN TrimEnd(SubSeq(s, 1, Len(s) - 1)) ELSE s

\* String.prototype.trim
Trim(s) == TrimEnd(TrimStart(s))

LowerChar(c) ==
    CASE c = "A" -> "a" [] c = "B" -> "b" [] c = "L" -> "l" [] c = "W" -> "w"
      [] OTHER -> c

\* String.prototype.toLowerCase
toLowerCase(s) == [i \in 1..Len(s) |-> LowerChar(s[i])]

\* String.prototype.includes
includes(s, sub) ==
    \E i \in 1..(Len(s) + 1) :
        /\ i + Len(sub) - 1 <= Len(s)
        /\ SubSeq(s, i, i + Len(sub) - 1) = sub

(***************************************************************************)
(* formatTime (script.js:310-315).  Texts are tuples of characters; NA is  *)
(* the text "N/A" of script.js:217.  Number.prototype.toString writes an   *)
(* integer in base ten; String.prototype.padStart puts the pad character   *)
(* in front until the text has the length asked for.                       *)
(***************************************************************************)
NA == <<"N", "/", "A">>

Digit(n) == <<"0", "1", "2", "3", "4", "5", "6", "7", "8", "9">>[n + 1]

RECURSIVE toString(_)
toString(n) ==
    IF n < 0 THEN <<"-">> \o toString(-n)
    ELSE IF n < 10 THEN <<Digit(n)>>
    ELSE toString(n \div 10) \o <<Digit(n % 10)>>

RECURSIVE padStart(_, _, _)
padStart(s, targetLength, padString) ==
    IF Len(s) >= targetLength
    THEN s
    ELSE padStart(<<padString>> \o s, targetLength, padString)

\* mutant: the seconds are not padded
formatTime_NoPad(sec) ==
    IF sec = 0 \/ sec < 0
    THEN <<"0", ":", "0", "0">>
    ELSE LET m == sec \div 60
             s == sec % 60
         IN  toString(m) \o <<":">> \o toString(s)

formatTime(sec) ==
    IF sec = 0 \/ sec < 0
    THEN <<"0", ":", "0", "0">>
    ELSE LET m == sec \div 60
             s == sec % 60
         IN  toString(m) \o <<":">> \o padStart(toString(s), 2, "0")

(***************************************************************************)
(* The users of the login form (script.js:20-25), without passwords.       *)
(***************************************************************************)
users ==
    { [username |-> "1111", location |-> "Modan", role |-> "operator"],
      [username |-> "2222", location |-> "Baldeya", role |-> "operator"],
      [username |-> "3333", location |-> "Al-Khraj", role |-> "operator"],
      [username |-> "Admin", location |-> "all", role |-> "admin"] }

NoUser == EmptyObj    \* currentUser = null

(***************************************************************************)
(* The part of the state a synchronous call chain reads and writes, as a   *)
(* record threaded through the calls: `thrown` is set when a call throws,  *)
(* and every later call of the chain is then skipped up to the catch.      *)
(***************************************************************************)
World ==
    [cache |-> dashboardCache, dom |-> dom, timers |-> timers,
     alerts |-> alerts, thrown |-> FALSE]

Throw(w) == [w EXCEPT !.thrown = TRUE]

\* Sequencing of a call chain: Then(w, F) is F(w), the rest of the chain run
\* on the state w its first part left, with w computed once.
Then(w, F(_)) == CHOOSE out \in {F(x) : x \in {w}} : TRUE

\* renamedMachines[id] || name (script.js:215, 342, 370, 450)
displayNameOf(id, name) ==
    IF Has(renamedMachines, id) /\ renamedMachines[id] # <<>>
    THEN renamedMachines[id]
    ELSE name

(***************************************************************************)
(* createAlert (script.js:350-359): the alert is prepended to #alerts; its *)
(* removal after 10 s is the action ExpireAlert.                           *)
(***************************************************************************)
createAlert(w, message, level) ==
    [w EXCEPT !.alerts = <<[message |-> message, level |-> level]>> \o @]

(***************************************************************************)
(* Countdown timers.  A live interval is a record of the machine id it was *)
(* made for, its local counter t, and two facts about the objects it       *)
(* refers to:                                                              *)
(*   current  - its handle is the value etaIntervals[id] holds (the handle *)
(*              setInterval returned, until a later setInterval for the    *)
(*              same id overwrites it);                                    *)
(*   attached - the span `el` it captured is still in the document (no     *)
(*              innerHTML assignment has replaced or removed it since).    *)
(* A handle etaIntervals holds for no live interval makes clearInterval a  *)
(* no-op, as a missing key does.                                           *)
(***************************************************************************)
\* clearInterval(etaIntervals[id])
clearInterval(w, id) ==
    [w EXCEPT !.timers = {tm \in @ : ~(tm.id = id /\ tm.current)}]

\* an innerHTML assignment discards the spans under it
detach(w, ids) ==
    [w EXCEPT !.timers =
        {IF tm.id \in ids THEN [tm EXCEPT !.attached = FALSE] ELSE tm : tm \in @}]

(***************************************************************************)
(* setupETACountdown (script.js:317-329), up to the setInterval call; the  *)
(* interval's callback is the action Tick.                                 *)
(***************************************************************************)
\* mutant: the previous interval is not cleared
setupETACountdown_NoClear(w, id, sec) ==
    IF ~(Has(w.dom, id) /\ Has(w.dom[id], "eta"))
    THEN w
    ELSE [w EXCEPT
            !.dom[id].eta = formatTime(sec),
            !.timers = {[tm EXCEPT !.current = (tm.id # id /\ tm.current)] : tm \in @}
                       \cup {[id |-> id, t |-> sec, current |-> TRUE,
                              attached |-> TRUE]}]

\* mutant: a countdown that is running for the id is left to run
setupETACountdown_KeepRunning(w, id, sec) ==
    IF \E tm \in w.timers : tm.id = id /\ tm.current
    THEN w
    ELSE IF ~(Has(w.dom, id) /\ Has(w.dom[id], "eta"))
    THEN w
    ELSE [w EXCEPT
            !.dom[id].eta = formatTime(sec),
            !.timers = @ \cup {[id |-> id, t |-> sec, current |-> TRUE,
                                attached |-> TRUE]}]

setupETACountdown(w, id, sec) ==
    LET w1 == clearInterval(w, id)
    IN  IF ~(Has(w1.dom, id) /\ Has(w1.dom[id], "eta"))
        THEN w1
        ELSE [w1 EXCEPT
                !.dom[id].eta = formatTime(sec),
                !.timers = {[tm EXCEPT !.current = (tm.id # id /\ tm.current)] : tm \in @}
                           \cup {[id |-> id, t |-> sec, current |-> TRUE,
                                  attached |-> TRUE]}]

(***************************************************************************)
(* createOrUpdateMachineCard (script.js:213-251).  A card records the text *)
(* of its h3, the data-name, role and location its buttons were rendered   *)
(* for, the machine it shows, its class and, when the machine has a job,   *)
(* the text of its span #eta-<id>.  Setting innerHTML makes a new span.    *)
(* Reading currentUser.role throws when nobody is logged in.               *)
(***************************************************************************)
createOrUpdateMachineCard(w, machine, location) ==
    IF currentUser = NoUser
    THEN Throw(w)
    ELSE LET id == machine.id
             hasTime == Has(machine, "job") /\ Has(machine.job, "remaining_time")
             remainingTimeText ==
                 IF hasTime THEN formatTime(machine.job.remaining_time) ELSE NA
             base == [h3 |-> displayNameOf(id, machine.name),
                      dataName |-> displayNameOf(id, machine.name),
                      role |-> currentUser.role,
                      loc |-> location,
                      m |-> machine,
                      cls |-> IF Has(w.dom, id) THEN w.dom[id].cls
                                                ELSE machine.status]
             card == IF Has(machine, "job")
                     THEN Put(base, "eta", remainingTimeText)
                     ELSE base
             w1 == [detach(w, {id}) EXCEPT !.dom = Put(@, id, card)]
         IN  IF hasTime
             THEN setupETACountdown(w1, id, machine.job.remaining_time)
             ELSE w1

(***************************************************************************)
(* renderLocation (script.js:200-208) and renderDashboard (179-198).       *)
(***************************************************************************)
RECURSIVE renderLocation(_, _, _)
renderLocation(w, location, machines) ==
    IF machines = <<>> \/ w.thrown
    THEN w
    ELSE Then(createOrUpdateMachineCard(w, Head(machines), location),
              LAMBDA w1 : renderLocation(w1, location, Tail(machines)))

jobWorkOrder(m) == IF Has(m, "job") THEN m.job.work_order ELSE <<>>

visibleMachines(loc) ==
    LET searchFilter == toLowerCase(Trim(filters.search))
        byStatus == IF filters.status # "all"
                    THEN SelectSeq(loc.machines, LAMBDA m : m.status = filters.status)
                    ELSE loc.machines
    IN  IF searchFilter # <<>>
        THEN SelectSeq(byStatus,
                 LAMBDA m : \/ includes(toLowerCase(m.name), searchFilter)
                            \/ includes(toLowerCase(jobWorkOrder(m)), searchFilter))
        ELSE byStatus

RECURSIVE renderLocations(_, _)
renderLocations(w, locs) ==
    IF locs = <<>>
    THEN w
    ELSE Then(renderLocation(w, Head(locs).name, visibleMachines(Head(locs))),
              LAMBDA w1 : renderLocations(w1, Tail(locs)))

renderDashboard(w, data) ==
    IF currentUser = NoUser
    THEN w
    ELSE LET w0 == [detach(w, DOMAIN w.dom) EXCEPT !.dom = EmptyObj]
         IN  IF ~Has(data, "locations")
             THEN w0
             ELSE LET scoped ==
                          IF currentUser.location = "all"
                          THEN data.locations
                          ELSE SelectSeq(data.locations,
                                   LAMBDA l : l.name = currentUser.location)
                      visibleLocations ==
                          IF filters.location # "all"
                          THEN SelectSeq(scoped, LAMBDA l : l.name = filters.location)
                          ELSE scoped
                  IN  renderLocations(w0, visibleLocations)

(***************************************************************************)
(* handleAlerts (script.js:334-348): clears #alerts, then walks            *)
(* data.locations, which throws when the key is missing.                   *)
(***************************************************************************)
\* mutant: the band tests are not exclusive
machineAlert_Overlapping(w, m) ==
    IF ~Has(m, "job")
    THEN w
    ELSE LET p == m.job.progress_percent
             name == displayNameOf(m.id, m.name)
             w1 == IF p >= 75
                   THEN createAlert(w, [text |-> "reached 75% progress!", name |-> name], 1)
                   ELSE w
             w2 == IF p >= 90
                   THEN createAlert(w1, [text |-> "reached 90% progress!", name |-> name], 2)
                   ELSE w1
         IN  IF p >= 100
             THEN createAlert(w2, [text |-> "completed!", name |-> name], 3)
             ELSE w2

machineAlert(w, m) ==
    IF ~Has(m, "job")
    THEN w
    ELSE LET p == m.job.progress_percent
             name == displayNameOf(m.id, m.name)
         IN  IF p >= 75 /\ p < 90
             THEN createAlert(w, [text |-> "reached 75% progress!", name |-> name], 1)
             ELSE IF p >= 90 /\ p < 100
             THEN createAlert(w, [text |-> "reached 90% progress!", name |-> name], 2)
             ELSE IF p >= 100
             THEN createAlert(w, [text |-> "completed!", name |-> name], 3)
             ELSE w

RECURSIVE machinesAlerts(_, _)
machinesAlerts(w, machines) ==
    IF machines = <<>>
    THEN w
    ELSE Then(machineAlert(w, Head(machines)),
              LAMBDA w1 : machinesAlerts(w1, Tail(machines)))

RECURSIVE locationsAlerts(_, _)
locationsAlerts(w, locs) ==
    IF locs = <<>>
    THEN w
    ELSE Then(machinesAlerts(w, Head(locs).machines),
              LAMBDA w1 : locationsAlerts(w1, Tail(locs)))

handleAlerts(w, data) ==
    LET w0 == [w EXCEPT !.alerts = <<>>]
    IN  IF ~Has(data, "locations")
        THEN Throw(w0)
        ELSE locationsAlerts(w0, data.locations)

(***************************************************************************)
(* handleNewJob (script.js:415-451).  Iterating dashboardCache.locations   *)
(* throws when the cache has no locations.                                 *)
(***************************************************************************)
hasMachine(loc, id) == \E j \in 1..Len(loc.machines) : loc.machines[j].id = id

\* mutant: the idle test is dropped
assignJob_NoIdleTest(machine, job) ==
    IF ~Has(machine, "job")
    THEN Put(machine, "job",
             [work_order |-> job.work_order, size |-> job.pipe_size,
              completed_qty |-> 0, total_qty |-> job.qty,
              progress_percent |-> 0, remaining_time |-> job.eta])
    ELSE Put(machine, "next_job",
             [work_order |-> job.work_order, pipe_size |-> job.pipe_size,
              produced_qty |-> 0, total_qty |-> job.qty,
              remaining_time |-> job.eta])

assignJob(machine, job) ==
    IF ~Has(machine, "job") \/ machine.status = "idle"
    THEN LET j == [work_order |-> job.work_order, size |-> job.pipe_size,
                   completed_qty |-> 0, total_qty |-> job.qty,
                   progress_percent |-> 0]
         IN  Put(machine, "job",
                 IF Has(job, "eta") THEN Put(j, "remaining_time", job.eta) ELSE j)
    ELSE LET n == [work_order |-> job.work_order, pipe_size |-> job.pipe_size,
                   produced_qty |-> 0, total_qty |-> job.qty]
         IN  Put(machine, "next_job",
                 IF Has(job, "eta") THEN Put(n, "remaining_time", job.eta) ELSE n)

handleNewJob(w, job) ==
    IF ~Has(w.cache, "locations")
    THEN Throw(w)
    ELSE LET locs == w.cache.locations
             hits == {i \in 1..Len(locs) : hasMachine(locs[i], job.machine_id)}
             assigned ==
                 IF hits = {}
                 THEN w
                 ELSE LET i == SetMin(hits)
                          j == SetMin({k \in 1..Len(locs[i].machines) :
                                         locs[i].machines[k].id = job.machine_id})
                          machine == assignJob(locs[i].machines[j], job)
                          wc == [w EXCEPT !.cache.locations[i].machines[j] = machine]
                      IN  IF Has(wc.dom, job.machine_id)
                          THEN createOrUpdateMachineCard(wc, machine, locs[i].name)
                          ELSE wc
         IN  Then(assigned, LAMBDA w1 :
                 IF w1.thrown
                 THEN w1
                 ELSE createAlert(w1, [text |-> "New Job Assigned",
                                       name |-> displayNameOf(job.machine_id,
                                                              job.machine_name),
                                       work_order |-> job.work_order], 0))

(***************************************************************************)
(* socket.onmessage (script.js:101-120).  The payload is either Malformed  *)
(* (JSON.parse throws) or a data object.  The result carries the new value *)
(* of suppressNextWSRender and whether loadProductionLogs was reached.     *)
(***************************************************************************)
Malformed == [malformed |-> TRUE]

onmessageTry(data) ==
    LET w0 == [World EXCEPT !.cache = data]
    IN  IF suppressNextWSRender
        THEN [w |-> w0, suppress |-> FALSE, logs |-> FALSE]
        ELSE Then(IF Has(data, "new_job") THEN handleNewJob(w0, data.new_job) ELSE w0,
             LAMBDA w1 :
                 \* data and dashboardCache are the same object
                 Then(IF ~w1.thrown /\ Has(w1.cache, "locations")
                      THEN renderDashboard(w1, [locations |-> w1.cache.locations])
                      ELSE w1,
                 LAMBDA w2 :
                     Then(IF w2.thrown THEN w2 ELSE handleAlerts(w2, w2.cache),
                     LAMBDA w3 :
                         [w |-> w3, suppress |-> suppressNextWSRender,
                          logs |-> ~w3.thrown])))

onmessage(payload) ==
    IF payload = Malformed
    THEN [w |-> createAlert(World, [text |-> "WebSocket data error"], 2),
          suppress |-> suppressNextWSRender, logs |-> FALSE]
    ELSE Then(onmessageTry(payload), LAMBDA r :
             IF r.w.thrown
             THEN [r EXCEPT !.w = createAlert([r.w EXCEPT !.thrown = FALSE],
                                              [text |-> "WebSocket data error"], 2)]
             ELSE r)

(***************************************************************************)
(* Writing a call chain's result back to the state.  No handler runs while *)
(* it would put more than MaxAlerts alerts on the page.                    *)
(***************************************************************************)
Commit(w) ==
    /\ Len(w.alerts) <= MaxAlerts
    /\ dashboardCache' = w.cache
    /\ dom' = w.dom
    /\ timers' = w.timers
    /\ alerts' = w.alerts

(***************************************************************************)
(* initWebSocket (script.js:90-94): the new values of socket and conns.    *)
(***************************************************************************)
initWebSocket ==
    IF socket # 0 /\ conns[socket] = "OPEN"
    THEN [socket |-> socket, conns |-> conns]
    ELSE LET h == Fresh(DOMAIN conns)
         IN  [socket |-> h, conns |-> Put(conns, h, "CONNECTING")]

\* loadDashboard up to its fetch (script.js:134-137): the requests in flight
loadDashboard(user) == IF user = NoUser THEN pendingPolls ELSE pendingPolls + 1

\* loadProductionLogs up to its fetch (script.js:154-157)
loadProductionLogs(user) == IF user = NoUser THEN pendingLogs ELSE pendingLogs + 1

(***************************************************************************)
(* The state after the script has loaded: restoreLogin (script.js:38-49,   *)
(* 85) with `saved` the user found in localStorage, NoUser when none is.   *)
(***************************************************************************)
restoreLogin(saved) ==
    /\ currentUser = saved
    /\ socket = IF saved = NoUser THEN 0 ELSE 1
    /\ conns = IF saved = NoUser THEN EmptyObj ELSE Put(EmptyObj, 1, "CONNECTING")
    /\ reconnectTimers = 0
    /\ timers = {}
    /\ suppressNextWSRender = FALSE
    /\ dashboardCache = EmptyObj
    /\ renamedMachines = EmptyObj
    /\ dom = EmptyObj
    /\ alerts = <<>>
    /\ dialog = ""
    /\ filters = [location |-> "all", status |-> "all", search |-> <<>>]
    /\ pendingPolls = IF saved = NoUser THEN 0 ELSE 1
    /\ retryTimers = 0
    /\ pendingLogs = IF saved = NoUser THEN 0 ELSE 1
    /\ pendingActions = {}
    /\ pendingRenames = {}
    /\ actionDispatched = FALSE

(***************************************************************************)
(* The login form's submit handler (script.js:65-82) for a valid user, and *)
(* logout (script.js:55-60).  initFilters rebuilds the location select, so *)
(* its value is "all" again.  The login form is shown only while nobody is *)
(* logged in.                                                              *)
(***************************************************************************)
Login(user) ==
    /\ currentUser = NoUser
    /\ currentUser' = user
    /\ filters' = [filters EXCEPT !.location = "all"]
    /\ LET ws == initWebSocket
       IN  /\ Cardinality(DOMAIN ws.conns) <= MaxConns
           /\ socket' = ws.socket
           /\ conns' = ws.conns
    /\ pendingPolls' = loadDashboard(user)
    /\ pendingPolls' <= MaxPending
    /\ pendingLogs' = loadProductionLogs(user)
    /\ pendingLogs' <= MaxPending
    /\ dialog' = ""
    /\ UNCHANGED actionDispatched
    /\ UNCHANGED <<reconnectTimers, timers, suppressNextWSRender,
                   dashboardCache, renamedMachines, dom, alerts, retryTimers,
                   pendingActions, pendingRenames>>

logout ==
    /\ currentUser # NoUser
    /\ currentUser' = NoUser
    /\ dialog' = ""
    /\ UNCHANGED actionDispatched
    /\ UNCHANGED <<socket, conns, reconnectTimers, timers,
                   suppressNextWSRender, dashboardCache, renamedMachines, dom,
                   alerts, filters, pendingPolls, retryTimers, pendingLogs,
                   pendingActions, pendingRenames>>

(***************************************************************************)
(* The WebSocket's events (script.js:95-128).  The handlers read the       *)
(* global `socket`, not the object the event is for.                       *)
(***************************************************************************)
\* onopen: socket.send throws when socket is null or still connecting
WsOpen(c) ==
    /\ Has(conns, c) /\ conns[c] = "CONNECTING"
    /\ conns' = [conns EXCEPT ![c] = "OPEN"]
    /\ IF socket # 0 /\ conns'[socket] # "CONNECTING"
       THEN Commit(createAlert(World, [text |-> "WebSocket connected"], 0))
       ELSE UNCHANGED <<dashboardCache, dom, timers, alerts>>
    /\ dialog' = ""
    /\ UNCHANGED actionDispatched
    /\ UNCHANGED <<currentUser, socket, reconnectTimers, suppressNextWSRender,
                   renamedMachines, filters, pendingPolls, retryTimers,
                   pendingLogs, pendingActions, pendingRenames>>

WsMessage(c, payload) ==
    /\ Has(conns, c) /\ conns[c] = "OPEN"
    /\ \E r \in {onmessage(payload)} :
           /\ Commit(r.w)
           /\ suppressNextWSRender' = r.suppress
           /\ pendingLogs' = IF r.logs THEN loadProductionLogs(currentUser)
                                       ELSE pendingLogs
           /\ pendingLogs' <= MaxPending
    /\ dialog' = ""
    /\ actionDispatched' = FALSE
    /\ UNCHANGED <<currentUser, socket, conns, reconnectTimers, renamedMachines,
                   filters, pendingPolls, retryTimers, pendingActions,
                   pendingRenames>>

\* onerror: socket.close() on the global socket; the failed connection closes too
WsError(c) ==
    /\ Has(conns, c) /\ conns[c] # "CLOSING"
    /\ conns' = [h \in DOMAIN conns |->
                    IF h = c \/ h = socket THEN "CLOSING" ELSE conns[h]]
    /\ dialog' = ""
    /\ UNCHANGED actionDispatched
    /\ UNCHANGED <<currentUser, socket, reconnectTimers, timers,
                   suppressNextWSRender, dashboardCache, renamedMachines, dom,
                   alerts, filters, pendingPolls, retryTimers, pendingLogs,
                   pendingActions, pendingRenames>>

\* mutant: onclose schedules no reconnect
WsClose_NoReconnect(c) ==
    /\ Has(conns, c)
    /\ conns' = Del(conns, c)
    /\ socket' = 0
    /\ Commit(createAlert(World, [text |-> "WebSocket disconnected. Reconnecting..."], 2))
    /\ dialog' = ""
    /\ UNCHANGED actionDispatched
    /\ UNCHANGED <<currentUser, suppressNextWSRender, renamedMachines, filters,
                   pendingPolls, pendingLogs, pendingActions,
                   pendingRenames, reconnectTimers, retryTimers>>

\* onclose, after a close() or a close by the server
WsClose(c) ==
    /\ Has(conns, c)
    /\ conns' = Del(conns, c)
    /\ socket' = 0
    /\ Commit(createAlert(World, [text |-> "WebSocket disconnected. Reconnecting..."], 2))
    /\ reconnectTimers' = reconnectTimers + 1
    /\ reconnectTimers' <= MaxPending
    /\ dialog' = ""
    /\ UNCHANGED actionDispatched
    /\ UNCHANGED <<currentUser, suppressNextWSRender, renamedMachines, filters,
                   pendingPolls, retryTimers, pendingLogs, pendingActions,
                   pendingRenames>>

\* the timeout of script.js:125 fires
Reconnect ==
    /\ reconnectTimers > 0
    /\ reconnectTimers' = reconnectTimers - 1
    /\ LET ws == initWebSocket
       IN  /\ Cardinality(DOMAIN ws.conns) <= MaxConns
           /\ socket' = ws.socket
           /\ conns' = ws.conns
    /\ dialog' = ""
    /\ UNCHANGED actionDispatched
    /\ UNCHANGED <<currentUser, timers, suppressNextWSRender,
                   dashboardCache, renamedMachines, dom, alerts, filters,
                   pendingPolls, retryTimers, pendingLogs, pendingActions,
                   pendingRenames>>

(***************************************************************************)
(* loadDashboard after its fetch (script.js:138-148).  updateMetricsModal  *)
(* walks data.locations and throws when the key is missing.                *)
(***************************************************************************)
PollSuccess(data) ==
    /\ pendingPolls > 0
    /\ pendingPolls' = pendingPolls - 1
    /\ \E w0 \in {renderDashboard([World EXCEPT !.cache = data], data)} :
           IF Has(data, "locations")
           THEN /\ Commit(w0)
                /\ UNCHANGED retryTimers
           ELSE /\ Commit(createAlert(w0, [text |-> "Backend not reachable. Retry in 3s"], 2))
                /\ retryTimers' = retryTimers + 1
                /\ retryTimers' <= MaxPending
    /\ dialog' = ""
    /\ UNCHANGED actionDispatched
    /\ UNCHANGED <<currentUser, socket, conns, reconnectTimers,
                   suppressNextWSRender, renamedMachines, filters, pendingLogs,
                   pendingActions, pendingRenames>>

\* mutant: the catch raises the alert and schedules no retry
PollFail_NoRetry ==
    /\ pendingPolls > 0
    /\ pendingPolls' = pendingPolls - 1
    /\ Commit(createAlert(World, [text |-> "Backend not reachable. Retry in 3s"], 2))
    /\ dialog' = ""
    /\ UNCHANGED actionDispatched
    /\ UNCHANGED <<currentUser, socket, conns, reconnectTimers,
                   suppressNextWSRender, renamedMachines, filters, pendingLogs,
                   pendingActions, pendingRenames, retryTimers>>

\* the fetch rejects or the response is not ok
PollFail ==
    /\ pendingPolls > 0
    /\ pendingPolls' = pendingPolls - 1
    /\ Commit(createAlert(World, [text |-> "Backend not reachable. Retry in 3s"], 2))
    /\ retryTimers' = retryTimers + 1
    /\ retryTimers' <= MaxPending
    /\ dialog' = ""
    /\ UNCHANGED actionDispatched
    /\ UNCHANGED <<currentUser, socket, conns, reconnectTimers,
                   suppressNextWSRender, renamedMachines, filters, pendingLogs,
                   pendingActions, pendingRenames>>

\* the timeout of script.js:147 fires
RetryPoll ==
    /\ retryTimers > 0
    /\ retryTimers' = retryTimers - 1
    /\ pendingPolls' = loadDashboard(currentUser)
    /\ pendingPolls' <= MaxPending
    /\ dialog' = ""
    /\ UNCHANGED actionDispatched
    /\ UNCHANGED <<currentUser, socket, conns, reconnectTimers, timers,
                   suppressNextWSRender, dashboardCache, renamedMachines,
                   dom, alerts, filters, pendingLogs, pendingActions,
                   pendingRenames>>

\* loadProductionLogs after its fetch (script.js:158-173); the logs table is not modelled
LogsResponse(failed) ==
    /\ pendingLogs > 0
    /\ pendingLogs' = pendingLogs - 1
    /\ IF failed
       THEN Commit(createAlert(World, [text |-> "Failed to fetch production logs"], 2))
       ELSE UNCHANGED <<dashboardCache, dom, timers, alerts>>
    /\ dialog' = ""
    /\ UNCHANGED actionDispatched
    /\ UNCHANGED <<currentUser, socket, conns, reconnectTimers,
                   suppressNextWSRender, renamedMachines, filters, pendingPolls,
                   retryTimers, pendingActions, pendingRenames>>

(***************************************************************************)
(* A filter control changes (script.js:389-391): its listener is           *)
(* loadDashboard.  The dashboard section is shown only to a logged-in user. *)
(***************************************************************************)
SetFilter(which, value) ==
    /\ currentUser # NoUser
    /\ filters[which] # value
    /\ filters' = [filters EXCEPT ![which] = value]
    /\ pendingPolls' = loadDashboard(currentUser)
    /\ pendingPolls' <= MaxPending
    /\ dialog' = ""
    /\ UNCHANGED actionDispatched
    /\ UNCHANGED <<currentUser, socket, conns, reconnectTimers, timers,
                   suppressNextWSRender, dashboardCache, renamedMachines,
                   dom, alerts, retryTimers, pendingLogs, pendingActions,
                   pendingRenames>>

(***************************************************************************)
(* machineAction (script.js:280-305).  ClickAction is the click on a       *)
(* card's start, pause or stop button up to the fetch; MachineActionDone   *)
(* is the rest, with the backend's answer: resp.error when the fetch or    *)
(* the JSON parse fails, else resp.ok and, optionally, resp.machine.       *)
(***************************************************************************)
ClickAction(action, id) ==
    /\ currentUser # NoUser
    /\ Has(dom, id) /\ dom[id].role = "operator"
    /\ LET req == [action |-> action, location |-> dom[id].loc, id |-> id]
       IN  /\ req \notin pendingActions
           /\ pendingActions' = pendingActions \cup {req}
    /\ Cardinality(pendingActions') <= MaxPending
    /\ dialog' = ""
    /\ actionDispatched' = TRUE
    /\ UNCHANGED <<currentUser, socket, conns, reconnectTimers, timers,
                   suppressNextWSRender, dashboardCache, renamedMachines,
                   dom, alerts, filters, pendingPolls, retryTimers, pendingLogs,
                   pendingRenames>>

\* mutant: the answer's ok flag is not tested
machineAction_NoOkTest(req, resp) ==
    IF Has(resp, "error")
    THEN [w |-> World, dialog |-> "action failed"]
    ELSE IF Has(dom, req.id) /\ Has(resp, "machine")
    THEN LET w1 == createOrUpdateMachineCard(World, resp.machine, req.location)
         IN  IF w1.thrown
             THEN [w |-> [w1 EXCEPT !.thrown = FALSE], dialog |-> "action failed"]
             ELSE [w |-> w1, dialog |-> IF resp.ok THEN "" ELSE "action failed"]
    ELSE [w |-> World, dialog |-> IF resp.ok THEN "" ELSE "action failed"]

machineAction(req, resp) ==
    IF Has(resp, "error")
    THEN [w |-> World, dialog |-> "action failed"]
    ELSE IF ~resp.ok
    THEN [w |-> World, dialog |-> "action failed"]
    ELSE IF Has(dom, req.id) /\ Has(resp, "machine")
    THEN LET w1 == createOrUpdateMachineCard(World, resp.machine, req.location)
         IN  IF w1.thrown
             THEN [w |-> [w1 EXCEPT !.thrown = FALSE], dialog |-> "action failed"]
             ELSE [w |-> w1, dialog |-> ""]
    ELSE [w |-> World, dialog |-> ""]

MachineActionDone(req, resp) ==
    /\ req \in pendingActions
    /\ pendingActions' = pendingActions \ {req}
    /\ \E r \in {machineAction(req, resp)} :
           /\ Commit(r.w)
           /\ dialog' = r.dialog
    /\ UNCHANGED actionDispatched
    /\ UNCHANGED <<currentUser, socket, conns, reconnectTimers,
                   suppressNextWSRender, renamedMachines, filters, pendingPolls,
                   retryTimers, pendingLogs, pendingRenames>>

(***************************************************************************)
(* editMachineName (script.js:256-275).  ClickEdit is the click on a       *)
(* card's edit button and the prompt, whose answer is Cancelled or the     *)
(* text typed; RenameDone is the rest, with the backend's answer.          *)
(***************************************************************************)
Cancelled == <<"null">>    \* prompt() returned null: no typed text is this tuple

ClickEdit(id, newName) ==
    /\ currentUser # NoUser
    /\ Has(dom, id) /\ dom[id].role = "admin"
    /\ IF newName = Cancelled \/ newName = <<>> \/ Trim(newName) = dom[id].dataName
       THEN UNCHANGED pendingRenames
       ELSE /\ pendingRenames' = pendingRenames \cup
                   {[location |-> dom[id].loc, id |-> id, newName |-> newName]}
            /\ pendingRenames' # pendingRenames
            /\ Cardinality(pendingRenames') <= MaxPending
    /\ dialog' = ""
    /\ UNCHANGED actionDispatched
    /\ UNCHANGED <<currentUser, socket, conns, reconnectTimers, timers,
                   suppressNextWSRender, dashboardCache, renamedMachines,
                   dom, alerts, filters, pendingPolls, retryTimers, pendingLogs,
                   pendingActions>>

editMachineName(req, resp) ==
    IF Has(resp, "error")
    THEN [w |-> World, renamed |-> renamedMachines, dialog |-> "Rename error"]
    ELSE IF ~resp.ok
    THEN [w |-> World, renamed |-> renamedMachines, dialog |-> "Rename failed"]
    ELSE LET w1 == IF Has(dom, req.id)
                   THEN [World EXCEPT !.dom[req.id].h3 = req.newName \o <<" ">>]
                   ELSE World
         IN  [w |-> createAlert(w1, [text |-> "Machine renamed to",
                                     name |-> req.newName], 0),
              renamed |-> Put(renamedMachines, req.id, Trim(req.newName)),
              dialog |-> ""]

RenameDone(req, resp) ==
    /\ req \in pendingRenames
    /\ pendingRenames' = pendingRenames \ {req}
    /\ \E r \in {editMachineName(req, resp)} :
           /\ Commit(r.w)
           /\ renamedMachines' = r.renamed
           /\ dialog' = r.dialog
    /\ UNCHANGED actionDispatched
    /\ UNCHANGED <<currentUser, socket, conns, reconnectTimers,
                   suppressNextWSRender, filters, pendingPolls, retryTimers,
                   pendingLogs, pendingActions>>

\* mutant: the callback never clears its interval
Tick_NoCancel(tm) ==
    /\ tm \in timers
    /\ dom' = IF tm.attached
              THEN [dom EXCEPT ![tm.id].eta = formatTime(tm.t)]
              ELSE dom
    /\ timers' = (timers \ {tm}) \cup {[tm EXCEPT !.t = tm.t - 1]}
    /\ dialog' = ""
    /\ UNCHANGED actionDispatched
    /\ UNCHANGED <<currentUser, socket, conns, reconnectTimers,
                   suppressNextWSRender, dashboardCache, renamedMachines, alerts,
                   filters, pendingPolls, retryTimers, pendingLogs,
                   pendingActions, pendingRenames>>

(***************************************************************************)
(* The interval callback of setupETACountdown (script.js:324-328), for the *)
(* live interval tm.  `el` is the span captured when the interval was made *)
(* and is never null; writing to it shows on the page only while it is     *)
(* attached.  clearInterval is given the handle etaIntervals holds for the *)
(* id.                                                                     *)
(***************************************************************************)
Tick(tm) ==
    /\ tm \in timers
    /\ dom' = IF tm.attached
              THEN [dom EXCEPT ![tm.id].eta = formatTime(tm.t)]
              ELSE dom
    /\ LET ticked == (timers \ {tm}) \cup {[tm EXCEPT !.t = tm.t - 1]}
       IN  timers' = IF tm.t - 1 < 0
                     THEN {x \in ticked : ~(x.id = tm.id /\ x.current)}
                     ELSE ticked
    /\ dialog' = ""
    /\ UNCHANGED actionDispatched
    /\ UNCHANGED <<currentUser, socket, conns, reconnectTimers,
                   suppressNextWSRender, dashboardCache, renamedMachines, alerts,
                   filters, pendingPolls, retryTimers, pendingLogs,
                   pendingActions, pendingRenames>>

\* the timeout of script.js:358 fires for the oldest alert on the page
ExpireAlert ==
    /\ alerts # <<>>
    /\ alerts' = SubSeq(alerts, 1, Len(alerts) - 1)
    /\ dialog' = ""
    /\ UNCHANGED actionDispatched
    /\ UNCHANGED <<currentUser, socket, conns, reconnectTimers, timers,
                   suppressNextWSRender, dashboardCache, renamedMachines,
                   dom, filters, pendingPolls, retryTimers, pendingLogs,
                   pendingActions, pendingRenames>>

(***************************************************************************)
(* The inputs the specifications draw from: what the backend sends and     *)
(* what the user types.  Shapes follow the payloads the script reads       *)
(* (script.js:110-112, 139-143, 291-298, 416).                             *)
(***************************************************************************)
Job(work_order, progress_percent) ==
    [work_order |-> work_order, size |-> "S", completed_qty |-> 1,
     total_qty |-> 5, progress_percent |-> progress_percent]

Timed(job, remaining_time) == Put(job, "remaining_time", remaining_time)

Machine(id, name, status) == [id |-> id, name |-> name, status |-> status]

WithJob(machine, job) == Put(machine, "job", job)

Snapshot(modan, baldeya) ==
    [locations |-> <<[name |-> "Modan", machines |-> modan],
                     [name |-> "Baldeya", machines |-> baldeya]>>]

NewJob(machine_id, machine_name, eta) ==
    [machine_id |-> machine_id, work_order |-> <<"W", "2">>, qty |-> 7,
     pipe_size |-> "P", eta |-> eta, machine_name |-> machine_name]

Operator == CHOOSE u \in users : u.location = "Modan"
Admin == CHOOSE u \in users : u.role = "admin"

M1 == Machine("m1", <<"A", "1">>, "idle")
M2 == Machine("m2", <<"B", "2">>, "running")
M3 == Machine("m3", <<"B", "3">>, "idle")

(***************************************************************************)
(* Spec: the push channel.  An operator's session is restored; the backend *)
(* pushes messages with any subset of the keys, answers polls and answers  *)
(* start requests; countdowns tick and alerts expire.                      *)
(***************************************************************************)
PushM1 ==
    {M1,
     [M1 EXCEPT !.status = "running"],
     WithJob(M1, Timed(Job(<<"W", "0">>, 50), 1)),
     WithJob([M1 EXCEPT !.status = "running"], Timed(Job(<<"W", "1">>, 50), 1))}

PushSnapshots ==
    {Snapshot(<<a, WithJob(M2, Job(<<"W", "3">>, 50))>>, <<M3>>) : a \in PushM1}

PushNewJobs == {NewJob("m1", <<"A", "1">>, 1)}

\* JSON objects with each subset of the keys locations, work_orders, new_job
PushData ==
    LET base == {EmptyObj} \cup PushSnapshots
        jobs == base \cup {Put(d, "new_job", j) : d \in base, j \in PushNewJobs}
    IN  jobs \cup {[work_orders |-> <<>>]}

PushPayloads == PushData \cup {Malformed}

PushResponses ==
    {[error |-> TRUE], [ok |-> FALSE], [ok |-> TRUE]}
    \cup {[ok |-> TRUE, machine |-> m] : m \in {x \in PushM1 : Has(x, "job")}}

Init == restoreLogin(Operator)

Next ==
    \/ \E c \in DOMAIN conns : WsOpen(c)
    \/ \E c \in DOMAIN conns : \E payload \in PushPayloads : WsMessage(c, payload)
    \/ \E data \in {d \in PushSnapshots : Has(d.locations[1].machines[1], "job")} :
           PollSuccess(data)
    \/ \E failed \in BOOLEAN : LogsResponse(failed)
    \/ ClickAction("start", "m1")
    \/ \E req \in pendingActions : \E resp \in PushResponses :
           MachineActionDone(req, resp)
    \/ \E tm \in timers : Tick(tm)
    \/ ExpireAlert

Spec == Init /\ [][Next]_vars

(***************************************************************************)
(* Vocabulary of the properties.                                           *)
(***************************************************************************)
\* data holds a locations tree with a machine of this id
Present(data, id) ==
    /\ Has(data, "locations")
    /\ \E i \in 1..Len(data.locations) : hasMachine(data.locations[i], id)

\* the places <<location index, machine index>> of the machines data holds
Places(data) ==
    {<<i, j>> : i \in 1..Len(data.locations), j \in 1..2} \cap
    {p \in (1..2) \X (1..2) :
        p[1] <= Len(data.locations) /\ p[2] <= Len(data.locations[p[1]].machines)}

At(data, p) == data.locations[p[1]].machines[p[2]]

\* the first place data holds a machine of this id at
PlaceOf(data, id) ==
    CHOOSE p \in Places(data) :
        /\ At(data, p).id = id
        /\ \A q \in Places(data) :
               At(data, q).id = id =>
                   (p[1] < q[1] \/ (p[1] = q[1] /\ p[2] <= q[2]))

ErrorAlert == [message |-> [text |-> "WebSocket data error"], level |-> 2]

\* C1. New-job routing: a new-job event for a machine the dashboard state
\* holds becomes the machine's current job, with completed quantity 0 and
\* progress 0, when the machine has no job or is idle; otherwise it becomes
\* the queued next job and the current job stays exactly as it was.
C1_NewJobRouting ==
    [][\A c \in DOMAIN conns : \A data \in PushData :
          ( /\ Has(data, "new_job")
            /\ Present(data, data.new_job.machine_id)
            /\ ~suppressNextWSRender
            \* implied by the conjunct after it: with these data the handler
            \* of a logged-in user reaches loadProductionLogs()
            /\ (currentUser = NoUser \/ pendingLogs' = pendingLogs + 1)
            /\ WsMessage(c, data) )
          => LET job == data.new_job
                 p == PlaceOf(data, job.machine_id)
                 before == At(data, p)
                 after == At(dashboardCache', p)
             IN  IF ~Has(before, "job") \/ before.status = "idle"
                 THEN /\ Has(after, "job")
                      /\ after.job.work_order = job.work_order
                      /\ after.job.total_qty = job.qty
                      /\ after.job.completed_qty = 0
                      /\ after.job.progress_percent = 0
                      /\ ~Has(after, "next_job")
                 ELSE /\ Has(after, "next_job")
                      /\ after.next_job.work_order = job.work_order
                      /\ after.next_job.total_qty = job.qty
                      /\ after.job = before.job
      ]_vars

\* a busy machine holds its job and the pushed job as its next job
C1_Witness ==
    /\ Present(dashboardCache, "m1")
    /\ LET m == At(dashboardCache, PlaceOf(dashboardCache, "m1"))
       IN  /\ Has(m, "next_job")
           /\ m.next_job.work_order = <<"W", "2">>
           /\ m.job.work_order = <<"W", "1">>
           /\ Has(dom, "m1") /\ dom["m1"].m = m

\* C2. A push message with a new_job and no locations patches the held
\* snapshot: the job is assigned to the target machine, which the held
\* locations tree has, and every other machine and location held before the
\* message is held unchanged after it.
C2_NewJobPatchesHeldSnapshot ==
    [][\A c \in DOMAIN conns : \A data \in PushData :
          ( /\ Has(data, "new_job")
            /\ ~Has(data, "locations")
            /\ Present(dashboardCache, data.new_job.machine_id)
            /\ WsMessage(c, data) )
          => /\ Has(dashboardCache', "locations")
             /\ Places(dashboardCache') = Places(dashboardCache)
             /\ LET target == PlaceOf(dashboardCache, data.new_job.machine_id)
                    after == At(dashboardCache', target)
                IN  /\ \/ (Has(after, "job")
                              /\ after.job.work_order = data.new_job.work_order)
                       \/ (Has(after, "next_job")
                              /\ after.next_job.work_order = data.new_job.work_order)
                    /\ \A q \in Places(dashboardCache) \ {target} :
                           At(dashboardCache', q) = At(dashboardCache, q)
      ]_vars

\* C3. A push message that is valid JSON with any subset of the keys
\* locations, work_orders, new_job is handled without the "WebSocket data
\* error" alert (the catch block does not run); a malformed payload gets the
\* alert, and leaves the connection open and the dashboard state unchanged.
C3_ValidJsonRaisesNoErrorAlert ==
    [][\A c \in DOMAIN conns :
          /\ \A data \in PushData :
                 WsMessage(c, data) =>
                     /\ ~onmessageTry(data).w.thrown
                     /\ (alerts' = <<>> \/ alerts' = alerts \/ alerts'[1] # ErrorAlert)
          /\ WsMessage(c, Malformed) =>
                 /\ alerts' = <<ErrorAlert>> \o alerts
                 /\ conns' = conns
                 /\ dashboardCache' = dashboardCache
      ]_vars

\* C10. One-shot suppression: the first push message handled after a start,
\* pause or stop was dispatched is ignored (nothing is rendered, no alert is
\* derived from it); a push message handled when no action was dispatched
\* since the last one is not ignored on account of the flag.
C10_NextPushAfterActionIgnored ==
    [][\A c \in DOMAIN conns : \A data \in PushData :
          WsMessage(c, data) =>
              IF actionDispatched
              THEN /\ dom' = dom
                   /\ timers' = timers
                   /\ alerts' = alerts
                   /\ pendingLogs' = pendingLogs
              ELSE ~suppressNextWSRender
      ]_vars

\* C9. After a successful start, pause or stop whose answer carries the
\* machine's updated record, the dashboard state holds that record for the
\* machine id, at the place the machine had; every other machine and the
\* order of the lists are unchanged.
C9_ActionResultReplacesRecord ==
    [][\A req \in pendingActions : \A resp \in PushResponses :
          ( /\ Has(resp, "machine") /\ resp.ok
            /\ Present(dashboardCache, req.id)
            /\ MachineActionDone(req, resp) )
          => /\ Has(dashboardCache', "locations")
             /\ Places(dashboardCache') = Places(dashboardCache)
             /\ LET target == PlaceOf(dashboardCache, req.id)
                IN  /\ At(dashboardCache', target) = resp.machine
                    /\ \A q \in Places(dashboardCache) \ {target} :
                           At(dashboardCache', q) = At(dashboardCache, q)
      ]_vars

(***************************************************************************)
(* SpecTimers: the countdowns.  An operator's session is restored; polls   *)
(* and pushes bring snapshots in which machine m1 is absent, without a     *)
(* job, with a job that has no remaining time, or with a job of 0..MaxSec  *)
(* seconds; the status filter changes; new jobs are pushed; start requests *)
(* are answered; the countdowns tick.                                      *)
(***************************************************************************)
TimerM1 ==
    {M1, WithJob([M1 EXCEPT !.status = "running"], Job(<<"W", "1">>, 50))}
    \cup {WithJob([M1 EXCEPT !.status = "running"], Timed(Job(<<"W", "1">>, 50), r)) :
            r \in 0..MaxSec}

TimerM2 == WithJob(M2, Timed(Job(<<"W", "3">>, 50), 1))

TimerSnapshots ==
    {Snapshot(<<a, TimerM2>>, <<>>) : a \in TimerM1}
    \cup {Snapshot(<<TimerM2>>, <<>>)}

TimerPushData ==
    TimerSnapshots
    \cup {Put(Snapshot(<<M1, TimerM2>>, <<>>), "new_job",
              NewJob("m1", <<"A", "1">>, MaxSec))}

TimerResponses ==
    {[ok |-> FALSE]} \cup {[ok |-> TRUE, machine |-> m] : m \in TimerM1}

InitTimers == restoreLogin(Operator)

NextTimers ==
    \/ \E c \in DOMAIN conns : WsOpen(c)
    \/ \E c \in DOMAIN conns : \E data \in TimerPushData : WsMessage(c, data)
    \/ \E data \in TimerSnapshots : PollSuccess(data)
    \/ LogsResponse(FALSE)
    \/ \E v \in {"all", "idle"} : SetFilter("status", v)
    \/ ClickAction("start", "m1")
    \/ \E req \in pendingActions : \E resp \in TimerResponses :
           MachineActionDone(req, resp)
    \/ \E tm \in timers : Tick(tm)
    \/ ExpireAlert

SpecTimers == InitTimers /\ [][NextTimers]_vars

\* the card of this id shows a job with a remaining time
ShowsTime(cards, id) ==
    /\ Has(cards, id)
    /\ Has(cards[id].m, "job")
    /\ Has(cards[id].m.job, "remaining_time")

\* C5. At most one live countdown timer exists per machine id in every
\* reachable state.
C5_OneTimerPerMachine ==
    \A tm \in timers : \A other \in timers : tm.id = other.id => tm = other

\* a new-job patch and the render after it have each started m1's countdown
C5_Witness ==
    /\ Has(dashboardCache, "new_job")
    /\ ShowsTime(dom, "m1")
    /\ \E tm \in timers : tm.id = "m1" /\ tm.t = MaxSec
    /\ \E tm \in timers : tm.id = "m2" /\ tm.t = 0

\* the span of the card of this id was seeded with the remaining time r of
\* the job the card shows and is driven by one timer, started from r
Reseeded(id) ==
    ShowsTime(dom', id) =>
        LET r == dom'[id].m.job.remaining_time
        IN  /\ dom'[id].eta = formatTime(r)
            /\ {tm \in timers' : tm.id = id /\ tm.attached}
                   = {[id |-> id, t |-> r, current |-> TRUE, attached |-> TRUE]}

\* what the span of a card shows is derived from the remaining time r of the
\* job the card shows: r until the first tick of the timer started from r,
\* then one second less at each tick, "0:00" once that timer has run out
DrivenBySeed(id) ==
    ShowsTime(dom, id) =>
        LET r == dom[id].m.job.remaining_time
            driving == {tm \in timers : tm.id = id /\ tm.attached}
        IN  /\ Cardinality(driving) <= 1
            /\ driving = {} => dom[id].eta = formatTime(0)
            /\ \A tm \in driving :
                   /\ tm.t \in 0..r
                   /\ dom[id].eta = formatTime(IF tm.t = r THEN r ELSE tm.t + 1)

\* C6. Snapshot wins over tick: whenever a machine's card is rendered from a
\* record whose job has remaining time r (by a poll, a push message or an
\* action result), the display is reseeded to formatTime(r), and in every
\* state what a card displays derives from the seed of its latest render.
C6_SnapshotWinsOverTick ==
    /\ [](\A id \in DOMAIN dom : DrivenBySeed(id))
    /\ [][ /\ \A data \in TimerSnapshots :
                  (currentUser # NoUser /\ PollSuccess(data))
                      => \A id \in DOMAIN dom' : Reseeded(id)
           /\ \A c \in DOMAIN conns : \A data \in TimerPushData :
                  (currentUser # NoUser /\ pendingLogs' # pendingLogs
                       /\ WsMessage(c, data))
                      => \A id \in DOMAIN dom' : Reseeded(id)
           /\ \A req \in pendingActions : \A resp \in TimerResponses :
                  (resp.ok /\ Has(resp, "machine") /\ Has(dom, req.id)
                       /\ currentUser # NoUser /\ MachineActionDone(req, resp))
                      => Reseeded(resp.machine.id)
         ]_vars

\* m1's card was rendered with MaxSec seconds after m2's timer had ticked,
\* and m1's timer has ticked once since
C6_Witness ==
    /\ ShowsTime(dom, "m1")
    /\ dom["m1"].m.job.remaining_time = MaxSec
    /\ dom["m1"].eta = formatTime(MaxSec)
    /\ \E tm \in timers : tm.id = "m1" /\ tm.attached /\ tm.t = MaxSec - 1
    /\ \E tm \in timers : tm.id = "m2" /\ tm.attached /\ tm.t = 0

\* C7. No leaked countdowns: a timer whose span is no longer on the page is
\* cancelled no later than its next tick.
C7_DetachedTimerCancelsAtNextTick ==
    [][\A tm \in timers :
          (~tm.attached /\ Tick(tm))
              => ~\E left \in timers' : left.id = tm.id /\ ~left.attached
      ]_vars

(***************************************************************************)
(* SpecSession: sessions, renames and actions.  Nobody is logged in at     *)
(* first; the operator of Modan and the admin log in and out while the     *)
(* push channel is still connecting; polls bring snapshots of machine m1;  *)
(* the admin renames m1, typing one of RenameInputs at the prompt; the     *)
(* operator starts, pauses and stops it; the backend answers either way.   *)
(***************************************************************************)
SessionM1 ==
    {M1, WithJob([M1 EXCEPT !.status = "running"], Timed(Job(<<"W", "1">>, 50), 1))}

SessionSnapshots == {Snapshot(<<a>>, <<>>) : a \in SessionM1}

SessionActionResponses ==
    {[error |-> TRUE], [ok |-> FALSE]}
    \cup {[ok |-> o, machine |-> m] : o \in BOOLEAN, m \in SessionM1}

RenameInputs == {Cancelled, <<>>, <<" ">>, <<"A", "1">>, <<"L", " ">>}

RenameResponses == {[error |-> TRUE], [ok |-> FALSE], [ok |-> TRUE]}

InitSession == restoreLogin(NoUser)

NextSession ==
    \/ \E u \in {Operator, Admin} : Login(u)
    \/ logout
    \/ \E data \in SessionSnapshots : PollSuccess(data)
    \/ LogsResponse(FALSE)
    \/ \E a \in {"start", "pause", "stop"} : ClickAction(a, "m1")
    \/ \E req \in pendingActions : \E resp \in SessionActionResponses :
           MachineActionDone(req, resp)
    \/ \E newName \in RenameInputs : ClickEdit("m1", newName)
    \/ \E req \in pendingRenames : \E resp \in RenameResponses :
           RenameDone(req, resp)
    \/ \E tm \in timers : Tick(tm)
    \/ ExpireAlert

SpecSession == InitSession /\ [][NextSession]_vars

\* the name a card shows: the text of its h3 as the browser lays it out,
\* without the white space at its ends
ShownName(card) == Trim(card.h3)

\* C4. Rename overlay survives snapshot replacement: once machine id M has
\* been renamed to N with success (N the name sent to the backend), every
\* card rendered for M shows N.
C4_RenameSurvives ==
    \A id \in DOMAIN renamedMachines \cap DOMAIN dom :
        ShownName(dom[id]) = renamedMachines[id]

\* the same, for the names that are not empty
C4_NonEmptyRenameSurvives ==
    \A id \in DOMAIN renamedMachines \cap DOMAIN dom :
        renamedMachines[id] # <<>> => ShownName(dom[id]) = renamedMachines[id]

Failed(resp) == Has(resp, "error") \/ ~resp.ok

\* C8. Failed actions mutate nothing: when a start, pause, stop or rename
\* request ends in failure (ok = false, or a network error), an alert box is
\* shown and neither the dashboard state, nor the rename overlay, nor any
\* card, nor any countdown timer changes.
C8_FailedActionsMutateNothing ==
    [][ /\ \A req \in pendingActions : \A resp \in SessionActionResponses :
               (Failed(resp) /\ MachineActionDone(req, resp))
                   => /\ dialog' # ""
                      /\ UNCHANGED <<dashboardCache, renamedMachines, dom, timers>>
        /\ \A req \in pendingRenames : \A resp \in RenameResponses :
               (Failed(resp) /\ RenameDone(req, resp))
                   => /\ dialog' # ""
                      /\ UNCHANGED <<dashboardCache, renamedMachines, dom, timers>>
      ]_vars

\* a start, pause or stop has just failed while m1's card showed no job and
\* the dashboard state held m1 with a job
C8_Witness ==
    /\ dialog = "action failed"
    /\ Has(dom, "m1") /\ ~Has(dom["m1"].m, "job")
    /\ Present(dashboardCache, "m1")
    /\ Has(At(dashboardCache, PlaceOf(dashboardCache, "m1")), "job")

(***************************************************************************)
(* SpecAlerts: new-job events and the alerts panel.  An operator's session *)
(* is restored; polls and pushes bring snapshots in which machine m1 has   *)
(* no job or a job at one of AlertProgress; pushes also bring new-job      *)
(* events for m1 and for the id "m9" no snapshot has, with and without a   *)
(* locations tree, and malformed payloads; alerts expire.                  *)
(***************************************************************************)
AlertProgress == {74, 75, 82, 89, 90, 99, 100}

AlertM1 ==
    {M1} \cup {WithJob([M1 EXCEPT !.status = "running"], Job(<<"W", "1">>, p)) :
                  p \in AlertProgress}

AlertSnapshots == {Snapshot(<<a>>, <<M3>>) : a \in AlertM1}

AlertNewJobs == {NewJob("m1", <<"A", "1">>, 1), NewJob("m9", <<"Z", "9">>, 1)}

AlertPushData ==
    AlertSnapshots
    \cup {Put(Snapshot(<<M1>>, <<M3>>), "new_job", j) : j \in AlertNewJobs}
    \cup {Put(EmptyObj, "new_job", j) : j \in AlertNewJobs}

InitAlerts == restoreLogin(Operator)

NextAlerts ==
    \/ \E c \in DOMAIN conns : WsOpen(c)
    \/ \E c \in DOMAIN conns : \E payload \in AlertPushData \cup {Malformed} :
           WsMessage(c, payload)
    \/ \E data \in AlertSnapshots : PollSuccess(data)
    \/ LogsResponse(FALSE)
    \/ \E tm \in timers : Tick(tm)
    \/ ExpireAlert

SpecAlerts == InitAlerts /\ [][NextAlerts]_vars

\* the state handleNewJob is called on by the handler of a message data
AtNewJob(data) == [World EXCEPT !.cache = data]

\* C11. A new-job event whose machine id matches no machine in any location
\* of the held dashboard state (neither the one held before the message nor
\* the one the message brings) is dropped: handleNewJob throws nothing,
\* changes no machine's job or next job, and makes no card.
C11_UnknownMachineDropped ==
    [][\A c \in DOMAIN conns : \A data \in AlertPushData :
          ( /\ Has(data, "new_job")
            /\ ~Present(dashboardCache, data.new_job.machine_id)
            /\ ~Present(data, data.new_job.machine_id)
            /\ WsMessage(c, data) )
          => LET before == AtNewJob(data)
                 after == handleNewJob(before, data.new_job)
             IN  /\ ~after.thrown
                 /\ after.cache = before.cache
                 /\ after.dom = before.dom
                 /\ ~Has(dom', data.new_job.machine_id)
      ]_vars

\* C12. A new-job event whose machine id matches no machine in the
\* dashboard state puts no alert on the page: after its message is handled
\* the page shows no "New Job Assigned" alert and no alert the event raised.
C12_UnknownMachineNoAlert ==
    [][\A c \in DOMAIN conns : \A data \in AlertPushData :
          ( /\ Has(data, "new_job")
            /\ ~Present(dashboardCache, data.new_job.machine_id)
            /\ ~Present(data, data.new_job.machine_id)
            /\ WsMessage(c, data) )
          => /\ \A i \in 1..Len(alerts') :
                    alerts'[i].message.text # "New Job Assigned"
             /\ alerts' # <<ErrorAlert>> \o alerts
      ]_vars

\* the band of the alert engine a progress lies in, as the alert it gives
BandAlert(p, name) ==
    IF p < 90
    THEN [message |-> [text |-> "reached 75% progress!", name |-> name], level |-> 1]
    ELSE IF p < 100
    THEN [message |-> [text |-> "reached 90% progress!", name |-> name], level |-> 2]
    ELSE [message |-> [text |-> "completed!", name |-> name], level |-> 3]

\* the alerts on the page that name a machine
AlertsNaming(shown, name) ==
    {i \in 1..Len(shown) :
        Has(shown[i].message, "name") /\ shown[i].message.name = name}

\* C13. Alert banding: one evaluation of the alert engine over a snapshot
\* gives each machine with a job at progress 75 or more exactly one alert,
\* the one of the band [75,90), [90,100) or [100,inf) its progress lies in,
\* and gives a machine below 75 or without a job no alert.
C13_AlertBanding ==
    [][\A c \in DOMAIN conns : \A data \in AlertPushData :
          (Has(data, "locations") /\ WsMessage(c, data))
          => LET held == dashboardCache'
                 alerting == {q \in Places(held) :
                                 /\ Has(At(held, q), "job")
                                 /\ At(held, q).job.progress_percent >= 75}
             IN  /\ Len(alerts') = Cardinality(alerting)
                 /\ \A q \in Places(held) :
                        LET m == At(held, q)
                            named == AlertsNaming(alerts', displayNameOf(m.id, m.name))
                        IN  IF q \in alerting
                            THEN /\ Cardinality(named) = 1
                                 /\ \A i \in named :
                                        alerts'[i] = BandAlert(m.job.progress_percent,
                                                               displayNameOf(m.id, m.name))
                            ELSE named = {}
      ]_vars

\* a job at progress 82 has its one alert, of the band [75,90)
C13_Witness ==
    /\ Present(dashboardCache, "m1")
    /\ LET m == At(dashboardCache, PlaceOf(dashboardCache, "m1"))
       IN  /\ Has(m, "job") /\ m.job.progress_percent = 82
           /\ alerts = <<[message |-> [text |-> "reached 75% progress!",
                                       name |-> m.name], level |-> 1]>>

\* C14. An alert, once on the page, stays there until its own 10-second
\* timeout removes it: every step but an expiry leaves the alerts that were
\* shown where they were, under the alerts it adds.
C14_AlertStaysUntilExpiry ==
    [][ \/ ExpireAlert
        \/ /\ Len(alerts') >= Len(alerts)
           /\ SubSeq(alerts', Len(alerts') - Len(alerts) + 1, Len(alerts')) = alerts
      ]_vars

(***************************************************************************)
(* SpecReconnect: the push connection's life.  An operator's session is    *)
(* restored; the connection opens, delivers messages, fails and is closed  *)
(* by either side; the reconnect timeout fires.  The timeout of            *)
(* script.js:125 is a pending browser timer: it fires if it stays pending  *)
(* (weak fairness of Reconnect).                                           *)
(***************************************************************************)
ReconnectPushData == {Snapshot(<<M1>>, <<>>), Malformed}

InitReconnect == restoreLogin(Operator)

NextReconnect ==
    \/ \E c \in DOMAIN conns : WsOpen(c)
    \/ \E c \in DOMAIN conns : \E payload \in ReconnectPushData : WsMessage(c, payload)
    \/ \E c \in DOMAIN conns : WsError(c)
    \/ \E c \in DOMAIN conns : WsClose(c)
    \/ Reconnect
    \/ \E data \in {Snapshot(<<M1>>, <<>>)} : PollSuccess(data)
    \/ LogsResponse(FALSE)
    \/ ExpireAlert

SpecReconnect == InitReconnect /\ [][NextReconnect]_vars /\ WF_vars(Reconnect)

DisconnectAlert ==
    [message |-> [text |-> "WebSocket disconnected. Reconnecting..."], level |-> 2]

\* C15. Reconnect: whenever a push connection closes, a disconnect alert is
\* put on the page and one reconnect is scheduled; and from Closed (socket
\* is null) the transport always gets to Connecting again.
C15_ReconnectAfterClose ==
    /\ [][\A c \in DOMAIN conns :
             WsClose(c) => /\ socket' = 0
                           /\ alerts' = <<DisconnectAlert>> \o alerts
                           /\ reconnectTimers' = reconnectTimers + 1]_vars
    /\ (socket = 0) ~> (socket # 0 /\ conns[socket] = "CONNECTING")

\* a connection made by the reconnect timeout, after a close
C15_Witness ==
    /\ socket # 0 /\ conns[socket] = "CONNECTING"
    /\ reconnectTimers = 0
    /\ \E i \in 1..Len(alerts) : alerts[i] = DisconnectAlert

(***************************************************************************)
(* SpecPoll: the dashboard fetch.  An operator's session is restored with  *)
(* its first fetch in flight; a fetch fails or succeeds, the retry timeout *)
(* fires, the user changes the status filter or logs out.  The timeout of  *)
(* script.js:147 is a pending browser timer (weak fairness of RetryPoll).  *)
(***************************************************************************)
PollSnapshots == {Snapshot(<<a>>, <<M3>>) : a \in SessionM1}

InitPoll == restoreLogin(Operator)

NextPoll ==
    \/ \E data \in PollSnapshots : PollSuccess(data)
    \/ PollFail
    \/ RetryPoll
    \/ logout
    \/ \E value \in {"all", "running"} : SetFilter("status", value)
    \/ LogsResponse(FALSE)
    \/ \E tm \in timers : Tick(tm)
    \/ ExpireAlert

SpecPoll == InitPoll /\ [][NextPoll]_vars /\ WF_vars(RetryPoll)

ReachabilityAlert ==
    [message |-> [text |-> "Backend not reachable. Retry in 3s"], level |-> 2]

\* the search text is empty or a case-insensitive substring of text
SearchHit(text) ==
    \/ toLowerCase(Trim(filters.search)) = <<>>
    \/ includes(toLowerCase(text), toLowerCase(Trim(filters.search)))

\* machine m of location locName passes the three filters in force, the
\* search being made on its display name or its job's work order
PassesFilters(locName, m) ==
    /\ filters.location \in {"all", locName}
    /\ filters.status \in {"all", m.status}
    /\ SearchHit(displayNameOf(m.id, m.name)) \/ SearchHit(jobWorkOrder(m))

\* the user may see location locName
InScope(locName) == currentUser.location \in {"all", locName}

\* the ids of the machines of data that the user may see and that pass
ShownIds(data) ==
    {At(data, p).id : p \in {q \in Places(data) :
        /\ InScope(data.locations[q[1]].name)
        /\ PassesFilters(data.locations[q[1]].name, At(data, q))}}

\* C16. Poll retry: a failed dashboard fetch puts the reachability alert on
\* the page and schedules exactly one retry; the retry of a logged-in user
\* starts a fetch; a fetch that succeeds is held and rendered and schedules
\* nothing.  So when fetches that stay possible forever do succeed at some
\* time, a logged-in session without a snapshot gets its snapshot loaded.
C16_PollRetriesUntilLoaded ==
    /\ [][/\ PollFail => /\ alerts' = <<ReachabilityAlert>> \o alerts
                         /\ retryTimers' = retryTimers + 1
                         /\ pendingPolls' = pendingPolls - 1
          /\ (RetryPoll /\ currentUser # NoUser) =>
                 /\ pendingPolls' = pendingPolls + 1
                 /\ retryTimers' = retryTimers - 1
          /\ \A data \in PollSnapshots :
                 PollSuccess(data) => /\ dashboardCache' = data
                                      /\ currentUser # NoUser =>
                                             DOMAIN dom' = ShownIds(data)
                                      /\ retryTimers' = retryTimers
                                      /\ alerts' = alerts]_vars
    /\ SF_vars(\E data \in PollSnapshots : PollSuccess(data)) =>
           ((currentUser # NoUser /\ ~Has(dashboardCache, "locations"))
               ~> (currentUser = NoUser \/ Has(dashboardCache, "locations")))

\* a snapshot loaded by a retry, the alert of the failed fetch still shown
C16_Witness ==
    /\ Has(dashboardCache, "locations") /\ Has(dom, "m1")
    /\ pendingPolls = 0 /\ retryTimers = 0
    /\ alerts = <<ReachabilityAlert>>
    /\ filters.status = "all"

(***************************************************************************)
(* SpecFilters: the filter controls.  An admin's session is restored; the  *)
(* admin sets the location, status and search controls and renames m1;    *)
(* each fetch that the controls start is answered with a snapshot.         *)
(***************************************************************************)
FilterM1 ==
    {M1, WithJob([M1 EXCEPT !.status = "running"], Job(<<"W", "1">>, 50))}

FilterSnapshots == {Snapshot(<<a>>, <<M3>>) : a \in FilterM1}

FilterLocations == {"all", "Baldeya"}

FilterStatuses == {"all", "running"}

FilterSearches == {<<>>, <<"b">>, <<"l">>, <<"W", " ">>}

InitFilters == restoreLogin(Admin)

NextFilters ==
    \/ \E data \in FilterSnapshots : PollSuccess(data)
    \/ \E value \in FilterLocations : SetFilter("location", value)
    \/ \E value \in FilterStatuses : SetFilter("status", value)
    \/ \E value \in FilterSearches : SetFilter("search", value)
    \/ ClickEdit("m1", <<"L">>)
    \/ \E req \in pendingRenames : RenameDone(req, [ok |-> TRUE])
    \/ LogsResponse(FALSE)
    \/ ExpireAlert

SpecFilters == InitFilters /\ [][NextFilters]_vars

\* C17. Filter composition: a render shows exactly the machines that pass
\* the location filter, the status filter and the search, the search being
\* a case-insensitive substring test on the display name (the rename when
\* there is one) or on the job's work order.
C17_RenderShowsFiltered ==
    [][\A data \in FilterSnapshots :
           PollSuccess(data) => DOMAIN dom' = ShownIds(data)]_vars

(***************************************************************************)
(* SpecFormat: the remaining-time text.  An operator's session is          *)
(* restored; polls and pushes bring snapshots in which m1's job has a      *)
(* remaining time from FormatSeconds, which the card shows through         *)
(* formatTime at its rendering and at every tick of its countdown.         *)
(***************************************************************************)
FormatSeconds == {-61, -1, 0, 1, 9, 10, 59, 60, 61, 125}

FormatM1(d) == WithJob([M1 EXCEPT !.status = "running"], Timed(Job(<<"W", "1">>, 50), d))

FormatSnapshots == {Snapshot(<<FormatM1(d)>>, <<>>) : d \in FormatSeconds}

InitFormat == restoreLogin(Operator)

NextFormat ==
    \/ \E c \in DOMAIN conns : WsOpen(c)
    \/ \E c \in DOMAIN conns : \E payload \in FormatSnapshots : WsMessage(c, payload)
    \/ \E data \in FormatSnapshots : PollSuccess(data)
    \/ LogsResponse(FALSE)
    \/ \E tm \in timers : Tick(tm)
    \/ ExpireAlert

SpecFormat == InitFormat /\ [][NextFormat]_vars

\* the number a text of decimal digits writes
RECURSIVE ParseNat(_)
ParseNat(s) ==
    IF s = <<>>
    THEN 0
    ELSE 10 * ParseNat(SubSeq(s, 1, Len(s) - 1))
         + (CHOOSE n \in 0..9 : Digit(n) = s[Len(s)])

IsDigits(s) == s # <<>> /\ \A i \in 1..Len(s) : \E n \in 0..9 : Digit(n) = s[i]

\* text is "M:SS" for d seconds: the minutes in decimal without a leading
\* zero, a colon, and the seconds left over as two digits; "0:00" for d < 0
IsTimeText(text, d) ==
    IF d < 0
    THEN text = <<"0", ":", "0", "0">>
    ELSE /\ Len(text) >= 4
         /\ text[Len(text) - 2] = ":"
         /\ LET mm == SubSeq(text, 1, Len(text) - 3)
                ss == SubSeq(text, Len(text) - 1, Len(text))
            IN  /\ IsDigits(mm) /\ IsDigits(ss)
                /\ Len(mm) = 1 \/ mm[1] # "0"
                /\ 60 * ParseNat(mm) + ParseNat(ss) = d
                /\ ParseNat(ss) < 60

\* C18. formatTime: the text a card shows for a remaining time of d seconds,
\* at its rendering and at each tick, is "0:00" for d < 0 and, for d >= 0,
\* floor(d/60), a colon, and d mod 60 as two digits.
C18_FormatTimeText ==
    [][/\ \A d \in FormatSeconds :
            \/ PollSuccess(Snapshot(<<FormatM1(d)>>, <<>>))
            \/ \E c \in DOMAIN conns : WsMessage(c, Snapshot(<<FormatM1(d)>>, <<>>))
            => IsTimeText(dom'["m1"].eta, d)
       /\ \A tm \in timers :
            (tm.attached /\ Tick(tm)) => IsTimeText(dom'[tm.id].eta, tm.t)]_vars

\* 125 seconds are shown as "2:05"
C18_Witness ==
    /\ Has(dom, "m1") /\ Has(dom["m1"], "eta")
    /\ dom["m1"].m.job.remaining_time = 125
    /\ dom["m1"].eta = <<"2", ":", "0", "5">>
    /\ \E tm \in timers : tm.id = "m1" /\ tm.t = 125

(***************************************************************************)
(* SpecConnections: the push connections of successive sessions.  Nobody   *)
(* is logged in at load; users log in and out, connections open, fail and  *)
(* close, and the reconnect timeout fires.                                 *)
(***************************************************************************)
InitConnections == restoreLogin(NoUser)

NextConnections ==
    \/ \E u \in {Operator, Admin} : Login(u)
    \/ logout
    \/ \E c \in DOMAIN conns : WsOpen(c)
    \/ \E c \in DOMAIN conns : WsError(c)
    \/ \E c \in DOMAIN conns : WsClose(c)
    \/ Reconnect
    \/ \E data \in SessionSnapshots : PollSuccess(data)
    \/ LogsResponse(FALSE)
    \/ ExpireAlert

SpecConnections == InitConnections /\ [][NextConnections]_vars

\* the push connections that are connecting or open
Live == {c \in DOMAIN conns : conns[c] \in {"CONNECTING", "OPEN"}}

\* C19. Single push connection: in every reachable state at most one push
\* connection is connecting or open.
C19_SinglePushConnection == Cardinality(Live) <= 1

(***************************************************************************)
(* SpecCountdown: the steps of SpecTimers, with the intervals firing.  An  *)
(* interval made by setInterval (script.js:323) fires again and again      *)
(* while it is live: weak fairness of the ticks of each machine's timer.   *)
(***************************************************************************)
TimerIds == {"m1", "m2"}

TickOf(id) == \E tm \in timers : tm.id = id /\ Tick(tm)

SpecCountdown ==
    InitTimers /\ [][NextTimers]_vars /\ \A id \in TimerIds : WF_vars(TickOf(id))

\* a step other than a tick that leaves a countdown for id that was not
\* there before it: a later start for the machine
Restarted(id) ==
    /\ \E tm \in timers' : tm.id = id /\ tm.attached /\ tm \notin timers
    /\ ~\E old \in timers : Tick(old)

\* C20. Countdown termination: a countdown's counter is never negative while
\* it is live; each tick shows the counter and lowers it by one, and the
\* tick at counter zero cancels the countdown and leaves "0:00" on the
\* card; a card with a remaining time and no countdown shows "0:00".  So a
\* countdown that is not started again for its machine ends.
C20_CountdownTerminates ==
    /\ [](\A tm \in timers : tm.current /\ tm.t >= 0)
    /\ [](\A id \in DOMAIN dom :
            (ShowsTime(dom, id) /\ ~\E tm \in timers : tm.id = id)
                => dom[id].eta = <<"0", ":", "0", "0">>)
    /\ [][\A tm \in timers :
            Tick(tm) =>
                /\ tm.attached => dom'[tm.id].eta = formatTime(tm.t)
                /\ IF tm.t = 0
                   THEN ~\E left \in timers' : left.id = tm.id
                   ELSE {left \in timers' : left.id = tm.id}
                            = {[tm EXCEPT !.t = tm.t - 1]}]_vars
    /\ \A id \in TimerIds :
           \/ []<>(~\E tm \in timers : tm.id = id)
           \/ []<><<Restarted(id)>>_vars

\* m1's countdown, started from MaxSec seconds, has run out
C20_Witness ==
    /\ ShowsTime(dom, "m1")
    /\ dom["m1"].m.job.remaining_time = MaxSec
    /\ dom["m1"].eta = <<"0", ":", "0", "0">>
    /\ ~\E tm \in timers : tm.id = "m1"

\* C21. Each tick lowers the displayed remaining time by one second: for a
\* countdown seeded with n that still drives its card, after its k-th tick
\* (1 <= k <= n) the card shows formatTime(n - k).  The countdown's counter
\* is n - (k - 1) before its k-th tick.
C21_TickShowsDecrement ==
    [][\A tm \in timers :
          (tm.attached /\ tm.current /\ ShowsTime(dom, tm.id) /\ Tick(tm)) =>
              LET n == dom[tm.id].m.job.remaining_time
                  k == n - tm.t + 1
              IN  (1 <= k /\ k <= n) => dom'[tm.id].eta = formatTime(n - k)]_vars

====
